---- MODULE Spec2Model ----
(***************************************************************************)
(* The board rules engine of go-game-rust (src/src/src/main.rs, GoBoard):  *)
(* occupancy grid, flood-fill group discovery, liberty test, capture       *)
(* resolution, move legality (capture first, then suicide), move           *)
(* application, pass and reset.                                            *)
(*                                                                         *)
(* The state of the machine is the GoBoard struct.  Four further           *)
(* variables record the call that produced the current state: `call` (the  *)
(* operation, its arguments and its results), `pre` (the struct as it was  *)
(* when the call started), `steps` (accepted moves and passes since        *)
(* construction or reset) and `accepted` (the last accepted move since     *)
(* construction or reset, if there is one).  The operations                *)
(* never read `call`, `pre` and `accepted`; `steps` is read only by the    *)
(* guards that bound the length of a game.                                 *)
(***************************************************************************)
EXTENDS Integers, Sequences, FiniteSets

VARIABLES board_size, board, current_player, captured_black, captured_white,
          game_over, last_move, call, pre, steps, accepted

vars == <<board_size, board, current_player, captured_black, captured_white,
          game_over, last_move, call, pre, steps, accepted>>

core == <<board_size, board, current_player, captured_black, captured_white,
          game_over, last_move>>

(***************************************************************************)
(* Bounds.  The program's boards are 9, 13 and 19 wide with 19 the         *)
(* default (consts.rs, VALID_BOARD_SIZES and DEFAULT_BOARD_SIZE); the      *)
(* model keeps the shape (three sizes, the default the largest) on boards  *)
(* small enough to enumerate.  The caller clicks at most MaxSteps accepted *)
(* moves and passes between two resets, and only on the cells of           *)
(* PlayCells that lie on the board: a corner region with corner, edge and  *)
(* interior cells; the rest of the board stays empty.                      *)
(***************************************************************************)
DEFAULT_BOARD_SIZE == 3

MaxSteps == 6

VALID_BOARD_SIZES == {DEFAULT_BOARD_SIZE - 2, DEFAULT_BOARD_SIZE - 1, DEFAULT_BOARD_SIZE}

PlayCells == (0..1) \X (0..2)

(***************************************************************************)
(* enum Stone, enum Player                                                 *)
(***************************************************************************)
StoneBlack == "Stone::Black"

StoneWhite == "Stone::White"

StoneEmpty == "Stone::Empty"

Stone == {StoneBlack, StoneWhite, StoneEmpty}

PlayerBlack == "Player::Black"

PlayerWhite == "Player::White"

Player == {PlayerBlack, PlayerWhite}

other(p) == IF p = PlayerBlack THEN PlayerWhite ELSE PlayerBlack

to_stone(p) == IF p = PlayerBlack THEN StoneBlack ELSE StoneWhite

\* Option<(usize, usize)>: None is the empty tuple, Some((r, c)) is <<r, c>>.
None == <<>>

Some(r, c) == <<r, c>>

\* vec![vec![Stone::Empty; n]; n]
EmptyBoard(n) == [r \in 0..(n - 1) |-> [c \in 0..(n - 1) |-> StoneEmpty]]

\* Variant: the four diagonal cells count as neighbours too.
get_neighbors_with_diagonals(n, row, col) ==
    LET directions == << <<-1, 0>>, <<1, 0>>, <<0, -1>>, <<0, 1>>,
                         <<-1, -1>>, <<-1, 1>>, <<1, -1>>, <<1, 1>> >>
        moved == [i \in 1..8 |-> <<row + directions[i][1], col + directions[i][2]>>]
    IN  SelectSeq(moved, LAMBDA p : /\ p[1] >= 0
                                    /\ p[1] < n
                                    /\ p[2] >= 0
                                    /\ p[2] < n)

(***************************************************************************)
(* get_neighbors: up, down, left, right, those inside the board, in that   *)
(* order.                                                                  *)
(***************************************************************************)
get_neighbors(n, row, col) ==
    LET directions == << <<-1, 0>>, <<1, 0>>, <<0, -1>>, <<0, 1>> >>
        moved == [i \in 1..4 |-> <<row + directions[i][1], col + directions[i][2]>>]
    IN  SelectSeq(moved, LAMBDA p : /\ p[1] >= 0
                                    /\ p[1] < n
                                    /\ p[2] >= 0
                                    /\ p[2] < n)

(***************************************************************************)
(* get_group: worklist flood fill.  `stack` is the Vec used as a stack     *)
(* (pop takes the last element), `group` the HashSet.                      *)
(***************************************************************************)
RECURSIVE get_group_loop(_, _, _, _, _)
get_group_loop(b, n, stone, group, stack) ==
    IF stack = <<>>
    THEN group
    ELSE LET top  == stack[Len(stack)]
             rest == SubSeq(stack, 1, Len(stack) - 1)
         IN  IF top \in group \/ b[top[1]][top[2]] # stone
             THEN get_group_loop(b, n, stone, group, rest)
             ELSE LET g2 == group \cup {top}
                      pushed == SelectSeq(get_neighbors(n, top[1], top[2]),
                                          LAMBDA p : p \notin g2 /\ b[p[1]][p[2]] = stone)
                  IN  get_group_loop(b, n, stone, g2, rest \o pushed)

get_group(b, n, row, col, stone) == get_group_loop(b, n, stone, {}, << <<row, col>> >>)

\* The neighbours of a cell as a set (the loops below only test membership).
NeighborSet(n, row, col) ==
    LET s == get_neighbors(n, row, col) IN {s[i] : i \in 1..Len(s)}

(***************************************************************************)
(* has_liberties                                                           *)
(***************************************************************************)
\* Variant: only the cell's own neighbours are looked at, not its group's.
has_liberties_own_cell_only(b, n, row, col) ==
    IF b[row][col] = StoneEmpty
    THEN TRUE
    ELSE \E q \in NeighborSet(n, row, col) : b[q[1]][q[2]] = StoneEmpty

has_liberties(b, n, row, col) ==
    LET stone == b[row][col]
    IN  IF stone = StoneEmpty
        THEN TRUE
        ELSE \E g \in get_group(b, n, row, col, stone) :
                 \E q \in NeighborSet(n, g[1], g[2]) : b[q[1]][q[2]] = StoneEmpty

(***************************************************************************)
(* capture_stones: the scan visits the cells in row-major order; every     *)
(* cell of the opponent's colour without liberties appends its whole group *)
(* to to_remove and adds the group's size to captured.  The removal runs   *)
(* after the scan.  The result is the board and the returned count.        *)
(***************************************************************************)
RECURSIVE capture_scan(_, _, _, _, _, _)
\* Lines 135-139: the dead cell's group goes to to_remove, its size to captured.
capture_hit(b, n, opponent, i, captured, to_remove, group) ==
    capture_scan(b, n, opponent, i + 1, captured + Cardinality(group), to_remove \cup group)

capture_scan(b, n, opponent, i, captured, to_remove) ==
    IF i >= n * n
    THEN [captured |-> captured, to_remove |-> to_remove]
    ELSE IF b[i \div n][i % n] = opponent /\ ~has_liberties(b, n, i \div n, i % n)
         THEN capture_hit(b, n, opponent, i, captured, to_remove,
                          get_group(b, n, i \div n, i % n, opponent))
         ELSE capture_scan(b, n, opponent, i + 1, captured, to_remove)

\* Lines 143-146: the removal pass and the returned count.
capture_remove(b, n, scan) ==
    [board    |-> [r \in 0..(n - 1) |-> [c \in 0..(n - 1) |->
                      IF <<r, c>> \in scan.to_remove THEN StoneEmpty ELSE b[r][c]]],
     captured |-> scan.captured]

capture_stones(b, n, opponent) ==
    capture_remove(b, n, capture_scan(b, n, opponent, 0, 0, {}))

(***************************************************************************)
(* Legality.                                                               *)
(***************************************************************************)
\* Variant: the cell about to be filled still counts as a liberty.
would_group_be_captured_counts_new_cell(b, n, group_row, group_col, group_stone, new_stone_row, new_stone_col) ==
    LET group == get_group(b, n, group_row, group_col, group_stone)
    IN  ~ \E g \in group :
            \E q \in NeighborSet(n, g[1], g[2]) : b[q[1]][q[2]] = StoneEmpty

would_group_be_captured(b, n, group_row, group_col, group_stone, new_stone_row, new_stone_col) ==
    LET group == get_group(b, n, group_row, group_col, group_stone)
    IN  ~ \E g \in group :
            \E q \in NeighborSet(n, g[1], g[2]) :
                /\ b[q[1]][q[2]] = StoneEmpty
                /\ ~(q[1] = new_stone_row /\ q[2] = new_stone_col)

would_capture_opponent(b, n, row, col, player) ==
    LET opponent_stone == to_stone(other(player))
    IN  \E q \in NeighborSet(n, row, col) :
            /\ b[q[1]][q[2]] = opponent_stone
            /\ would_group_be_captured(b, n, q[1], q[2], opponent_stone, row, col)

\* Variant: the cell about to be filled still counts as a liberty of the group.
would_friendly_group_counts_new_cell(b, n, group_row, group_col, group_stone, new_row, new_col) ==
    \/ \E g \in get_group(b, n, group_row, group_col, group_stone) :
          \E q \in NeighborSet(n, g[1], g[2]) : b[q[1]][q[2]] = StoneEmpty
    \/ \E q \in NeighborSet(n, new_row, new_col) : b[q[1]][q[2]] = StoneEmpty

would_friendly_group_have_liberties(b, n, group_row, group_col, group_stone, new_row, new_col) ==
    LET group == get_group(b, n, group_row, group_col, group_stone)
    IN  \/ \E g \in group :
              \E q \in NeighborSet(n, g[1], g[2]) :
                  /\ b[q[1]][q[2]] = StoneEmpty
                  /\ ~(q[1] = new_row /\ q[2] = new_col)
        \/ \E q \in NeighborSet(n, new_row, new_col) : b[q[1]][q[2]] = StoneEmpty

\* Variant: only the direct liberties are looked at, friendly groups are not.
would_be_suicide_direct_only(b, n, row, col, player) ==
    ~ \E q \in NeighborSet(n, row, col) : b[q[1]][q[2]] = StoneEmpty

\* Variant: no move is ever reported as suicide.
would_be_suicide_never(b, n, row, col, player) == FALSE

would_be_suicide(b, n, row, col, player) ==
    LET player_stone == to_stone(player)
    IN  /\ ~ \E q \in NeighborSet(n, row, col) : b[q[1]][q[2]] = StoneEmpty
        /\ ~ \E q \in NeighborSet(n, row, col) :
                /\ b[q[1]][q[2]] = player_stone
                /\ would_friendly_group_have_liberties(b, n, q[1], q[2], player_stone, row, col)

\* Variant: the occupancy test of line 229 is missing.
is_valid_move_ignores_occupied(b, n, player, over, row, col) ==
    IF over
    THEN FALSE
    ELSE ~(~would_capture_opponent(b, n, row, col, player)
           /\ would_be_suicide(b, n, row, col, player))

\* Variant: the game_over test of line 229 is missing.
is_valid_move_ignores_game_over(b, n, player, over, row, col) ==
    IF b[row][col] # StoneEmpty
    THEN FALSE
    ELSE ~(~would_capture_opponent(b, n, row, col, player)
           /\ would_be_suicide(b, n, row, col, player))

\* Variant: suicide is tested whether or not the move captures.
is_valid_move_suicide_first(b, n, player, over, row, col) ==
    IF over \/ b[row][col] # StoneEmpty
    THEN FALSE
    ELSE ~would_be_suicide(b, n, row, col, player)

is_valid_move(b, n, player, over, row, col) ==
    IF over \/ b[row][col] # StoneEmpty
    THEN FALSE
    ELSE LET would_capture == would_capture_opponent(b, n, row, col, player)
         IN  ~(~would_capture /\ would_be_suicide(b, n, row, col, player))

(***************************************************************************)
(* The struct as a record, for `pre`.                                      *)
(***************************************************************************)
GoBoard ==
    [board_size     |-> board_size,
     board          |-> board,
     current_player |-> current_player,
     captured_black |-> captured_black,
     captured_white |-> captured_white,
     game_over      |-> game_over,
     last_move      |-> last_move]

(***************************************************************************)
(* The methods on a value g of the struct: what is_valid_move reads of     *)
(* &self, and what the accepted path of make_move computes from it for the *)
(* grid and the turn.                                                      *)
(***************************************************************************)
\* Variant: a naive ko guard, no capture next to the last move.
is_valid_move_on_guards_last_move(g, row, col) ==
    /\ is_valid_move(g.board, g.board_size, g.current_player, g.game_over, row, col)
    /\ ~ /\ g.last_move # None
          /\ g.last_move \in NeighborSet(g.board_size, row, col)
          /\ would_capture_opponent(g.board, g.board_size, row, col, g.current_player)

is_valid_move_on(g, row, col) ==
    is_valid_move(g.board, g.board_size, g.current_player, g.game_over, row, col)

place_and_capture(g, row, col) ==
    [board          |-> capture_stones([g.board EXCEPT ![row][col] = to_stone(g.current_player)],
                                       g.board_size,
                                       to_stone(other(g.current_player))).board,
     current_player |-> other(g.current_player)]

\* GoBoard::with_size(n), called by main with a size from VALID_BOARD_SIZES.
with_size(n) ==
    /\ board_size = n
    /\ board = EmptyBoard(n)
    /\ current_player = PlayerBlack
    /\ captured_black = 0
    /\ captured_white = 0
    /\ game_over = FALSE
    /\ last_move = None

Init ==
    /\ \E n \in VALID_BOARD_SIZES : with_size(n)
    /\ call = [op |-> "with_size"]
    /\ pre = GoBoard
    /\ steps = 0
    /\ accepted = <<>>

(***************************************************************************)
(* The record of the last accepted move kept in `accepted`: where, by      *)
(* whom, at which step, the cells the move emptied, and whether it retakes *)
(* (the accepted move of the step before, by the other player, emptied     *)
(* exactly the cell now played).                                           *)
(***************************************************************************)
Remember(acc, step, row, col, player, placed, after) ==
    << [row     |-> row,
        col     |-> col,
        player  |-> player,
        step    |-> step,
        removed |-> {q \in (DOMAIN placed) \X (DOMAIN placed) :
                        placed[q[1]][q[2]] # after[q[1]][q[2]]},
        retakes |-> /\ acc # <<>>
                    /\ acc[1].step = step - 1
                    /\ acc[1].player # player
                    /\ acc[1].removed = {<<row, col>>}] >>

(***************************************************************************)
(* make_move(row, col), for the in-range cells the caller passes.          *)
(***************************************************************************)
\* Variant: last_move is recorded before the validity test.
make_move_rejected_records_last_move(row, col) ==
    /\ call' = [op |-> "make_move", row |-> row, col |-> col, ret |-> FALSE, captured |-> 0]
    /\ last_move' = Some(row, col)
    /\ UNCHANGED <<board_size, board, current_player, captured_black, captured_white,
                   game_over, steps, accepted>>

\* Lines 242-244: the early return.
make_move_rejected(row, col) ==
    /\ call' = [op |-> "make_move", row |-> row, col |-> col, ret |-> FALSE, captured |-> 0]
    /\ UNCHANGED <<core, steps, accepted>>

\* Variant: the mover keeps the turn after a capture.
make_move_accepted_keeps_turn_on_capture(row, col) ==
    LET placed == [board EXCEPT ![row][col] = to_stone(current_player)]
        opponent_stone == to_stone(other(current_player))
    IN  \E cap \in {capture_stones(placed, board_size, opponent_stone)} :
            /\ board' = cap.board
            /\ last_move' = Some(row, col)
            /\ IF current_player = PlayerBlack
               THEN /\ captured_white' = captured_white + cap.captured
                    /\ UNCHANGED captured_black
               ELSE /\ captured_black' = captured_black + cap.captured
                    /\ UNCHANGED captured_white
            /\ current_player' = IF cap.captured > 0 THEN current_player
                                                     ELSE other(current_player)
            /\ call' = [op |-> "make_move", row |-> row, col |-> col,
                        ret |-> TRUE, captured |-> cap.captured]
            /\ steps' = steps + 1
            /\ accepted' = Remember(accepted, steps + 1, row, col, current_player, placed, cap.board)
            /\ UNCHANGED <<board_size, game_over>>

\* Variant: the capture is credited to the counter of the mover's colour.
make_move_accepted_credits_mover(row, col) ==
    LET placed == [board EXCEPT ![row][col] = to_stone(current_player)]
        opponent_stone == to_stone(other(current_player))
    IN  \E cap \in {capture_stones(placed, board_size, opponent_stone)} :
            /\ board' = cap.board
            /\ last_move' = Some(row, col)
            /\ IF current_player = PlayerBlack
               THEN /\ captured_black' = captured_black + cap.captured
                    /\ UNCHANGED captured_white
               ELSE /\ captured_white' = captured_white + cap.captured
                    /\ UNCHANGED captured_black
            /\ current_player' = other(current_player)
            /\ call' = [op |-> "make_move", row |-> row, col |-> col,
                        ret |-> TRUE, captured |-> cap.captured]
            /\ steps' = steps + 1
            /\ accepted' = Remember(accepted, steps + 1, row, col, current_player, placed, cap.board)
            /\ UNCHANGED <<board_size, game_over>>

\* Lines 245-255: place, record, capture, credit, flip.
make_move_accepted(row, col) ==
    LET placed == [board EXCEPT ![row][col] = to_stone(current_player)]
        opponent_stone == to_stone(other(current_player))
    IN  \E cap \in {capture_stones(placed, board_size, opponent_stone)} :
            /\ board' = cap.board
            /\ last_move' = Some(row, col)
            /\ IF current_player = PlayerBlack
               THEN /\ captured_white' = captured_white + cap.captured
                    /\ UNCHANGED captured_black
               ELSE /\ captured_black' = captured_black + cap.captured
                    /\ UNCHANGED captured_white
            /\ current_player' = other(current_player)
            /\ call' = [op |-> "make_move", row |-> row, col |-> col,
                        ret |-> TRUE, captured |-> cap.captured]
            /\ steps' = steps + 1
            /\ accepted' = Remember(accepted, steps + 1, row, col, current_player, placed, cap.board)
            /\ UNCHANGED <<board_size, game_over>>

\* Variant: the simple ko rule, a move into the single cell that the move
\* just before it emptied is rejected.
make_move_refuses_retake(row, col) ==
    /\ steps < MaxSteps
    /\ pre' = GoBoard
    /\ IF \/ ~is_valid_move_on(GoBoard, row, col)
          \/ /\ accepted # <<>>
             /\ accepted[1].step = steps
             /\ accepted[1].removed = {<<row, col>>}
       THEN make_move_rejected(row, col)
       ELSE make_move_accepted(row, col)

make_move(row, col) ==
    /\ steps < MaxSteps
    /\ pre' = GoBoard
    /\ IF ~is_valid_move_on(GoBoard, row, col)
       THEN make_move_rejected(row, col)
       ELSE make_move_accepted(row, col)

\* Variant: a pass in a finished game does nothing.
pass_turn_checks_game_over ==
    /\ steps < MaxSteps
    /\ current_player' = IF game_over THEN current_player ELSE other(current_player)
    /\ pre' = GoBoard
    /\ call' = [op |-> "pass_turn"]
    /\ steps' = steps + 1
    /\ UNCHANGED <<board_size, board, captured_black, captured_white, game_over, last_move,
                   accepted>>

\* Variant: a pass forgets the last move.
pass_turn_clears_last_move ==
    /\ steps < MaxSteps
    /\ current_player' = other(current_player)
    /\ last_move' = None
    /\ pre' = GoBoard
    /\ call' = [op |-> "pass_turn"]
    /\ steps' = steps + 1
    /\ UNCHANGED <<board_size, board, captured_black, captured_white, game_over, accepted>>

\* Variant: the second of two passes in a row ends the game.
pass_turn_ends_game_after_two ==
    /\ steps < MaxSteps
    /\ current_player' = other(current_player)
    /\ game_over' = (game_over \/ call.op = "pass_turn")
    /\ pre' = GoBoard
    /\ call' = [op |-> "pass_turn"]
    /\ steps' = steps + 1
    /\ UNCHANGED <<board_size, board, captured_black, captured_white, last_move, accepted>>

pass_turn ==
    /\ steps < MaxSteps
    /\ current_player' = other(current_player)
    /\ pre' = GoBoard
    /\ call' = [op |-> "pass_turn"]
    /\ steps' = steps + 1
    /\ UNCHANGED <<board_size, board, captured_black, captured_white, game_over, last_move,
                   accepted>>

\* Variant: the board is rebuilt at its current size.
reset_keeps_size ==
    /\ board_size' = board_size
    /\ board' = EmptyBoard(board_size)
    /\ current_player' = PlayerBlack
    /\ captured_black' = 0
    /\ captured_white' = 0
    /\ game_over' = FALSE
    /\ last_move' = None
    /\ pre' = GoBoard
    /\ call' = [op |-> "reset"]
    /\ steps' = 0
    /\ accepted' = <<>>

\* reset: *self = Self::default()
reset ==
    /\ board_size' = DEFAULT_BOARD_SIZE
    /\ board' = EmptyBoard(DEFAULT_BOARD_SIZE)
    /\ current_player' = PlayerBlack
    /\ captured_black' = 0
    /\ captured_white' = 0
    /\ game_over' = FALSE
    /\ last_move' = None
    /\ pre' = GoBoard
    /\ call' = [op |-> "reset"]
    /\ steps' = 0
    /\ accepted' = <<>>

\* The host writes the game_over flag between calls.
set_game_over(v) ==
    /\ steps < MaxSteps
    /\ game_over # v
    /\ game_over' = v
    /\ pre' = GoBoard
    /\ call' = [op |-> "set_game_over"]
    /\ UNCHANGED <<board_size, board, current_player, captured_black, captured_white,
                   last_move, steps, accepted>>

Next ==
    \/ \E p \in PlayCells :
          /\ p[1] < board_size
          /\ p[2] < board_size
          /\ make_move(p[1], p[2])
    \/ pass_turn
    \/ reset
    \/ \E v \in BOOLEAN : set_game_over(v)

Spec == Init /\ [][Next]_vars

(***************************************************************************)
(* get_group, one loop iteration at a time, on every board.  The grid is   *)
(* any colouring of the cells of PlayCells that lie on the board; `call`   *)
(* holds the locals of the running call: `group`, `stack`, and the counts  *)
(* of pops, pushes and inserts made so far.  The struct is only read.      *)
(***************************************************************************)
Colourings(n) ==
    { [r \in 0..(n - 1) |-> [c \in 0..(n - 1) |->
          IF <<r, c>> \in PlayCells THEN f[<<r, c>>] ELSE StoneEmpty]] :
      f \in [PlayCells -> Stone] }

InitGroup ==
    /\ board_size \in VALID_BOARD_SIZES
    /\ board \in Colourings(board_size)
    /\ current_player = PlayerBlack
    /\ captured_black = 0
    /\ captured_white = 0
    /\ game_over = FALSE
    /\ last_move = None
    /\ call = [op |-> "with_board"]
    /\ pre = GoBoard
    /\ steps = 0
    /\ accepted = <<>>

\* let mut group = HashSet::new(); let mut stack = vec![(row, col)];
get_group_enter(row, col) ==
    /\ call.op = "with_board"
    /\ board[row][col] # StoneEmpty
    /\ call' = [op |-> "get_group", row |-> row, col |-> col, stone |-> board[row][col],
                group |-> {}, stack |-> << <<row, col>> >>,
                pops |-> 0, pushes |-> 1, inserts |-> 0]
    /\ UNCHANGED <<core, pre, steps, accepted>>

\* Variant: neither the popped cell nor a neighbour is tested against `group`.
get_group_iterate_revisits ==
    /\ call.op = "get_group"
    /\ call.stack # <<>>
    /\ LET top  == call.stack[Len(call.stack)]
           rest == SubSeq(call.stack, 1, Len(call.stack) - 1)
       IN  IF board[top[1]][top[2]] # call.stone
           THEN call' = [call EXCEPT !.stack = rest, !.pops = @ + 1]
           ELSE LET pushed == SelectSeq(get_neighbors(board_size, top[1], top[2]),
                                        LAMBDA p : board[p[1]][p[2]] = call.stone)
                IN  call' = [call EXCEPT !.group = @ \cup {top},
                                         !.stack = rest \o pushed,
                                         !.pops = @ + 1,
                                         !.pushes = @ + Len(pushed),
                                         !.inserts = @ + 1]
    /\ UNCHANGED <<core, pre, steps, accepted>>

\* One iteration of `while let Some((r, c)) = stack.pop()`.
get_group_iterate ==
    /\ call.op = "get_group"
    /\ call.stack # <<>>
    /\ LET top  == call.stack[Len(call.stack)]
           rest == SubSeq(call.stack, 1, Len(call.stack) - 1)
       IN  IF top \in call.group \/ board[top[1]][top[2]] # call.stone
           THEN call' = [call EXCEPT !.stack = rest, !.pops = @ + 1]
           ELSE LET g2 == call.group \cup {top}
                    pushed == SelectSeq(get_neighbors(board_size, top[1], top[2]),
                                        LAMBDA p : p \notin g2 /\ board[p[1]][p[2]] = call.stone)
                IN  call' = [call EXCEPT !.group = g2,
                                         !.stack = rest \o pushed,
                                         !.pops = @ + 1,
                                         !.pushes = @ + Len(pushed),
                                         !.inserts = @ + 1]
    /\ UNCHANGED <<core, pre, steps, accepted>>

\* The stack is empty: the loop ends and `group` is returned.
get_group_return ==
    /\ call.op = "get_group"
    /\ call.stack = <<>>
    /\ call' = [op |-> "get_group_returned", row |-> call.row, col |-> call.col,
                stone |-> call.stone, ret |-> call.group,
                pops |-> call.pops, pushes |-> call.pushes, inserts |-> call.inserts]
    /\ UNCHANGED <<core, pre, steps, accepted>>

NextGroup ==
    \/ \E p \in PlayCells :
          /\ p[1] < board_size
          /\ p[2] < board_size
          /\ get_group_enter(p[1], p[2])
    \/ get_group_iterate
    \/ get_group_return

SpecGroup == InitGroup /\ [][NextGroup]_vars

(***************************************************************************)
(* Vocabulary of the properties, defined from the rules of the game and    *)
(* not through the operators above: cells, orthogonal adjacency, the       *)
(* maximal connected same-coloured set around a cell (a least fixed        *)
(* point), and the liberties of a set of cells.                            *)
(***************************************************************************)
Cells(n) == (0..(n - 1)) \X (0..(n - 1))

At(b, p) == b[p[1]][p[2]]

Adjacent(p, q) ==
    \/ p[1] = q[1] /\ (p[2] = q[2] + 1 \/ q[2] = p[2] + 1)
    \/ p[2] = q[2] /\ (p[1] = q[1] + 1 \/ q[1] = p[1] + 1)

RECURSIVE Grow(_, _, _, _)
Grow(b, n, colour, S) ==
    LET S2 == S \cup {q \in Cells(n) : At(b, q) = colour /\ \E m \in S : Adjacent(m, q)}
    IN  IF S2 = S THEN S ELSE Grow(b, n, colour, S2)

Component(b, n, p) == Grow(b, n, At(b, p), {p})

Liberties(b, n, S) ==
    {e \in Cells(n) : At(b, e) = StoneEmpty /\ \E m \in S : Adjacent(m, e)}

Alive(b, n, p) == Liberties(b, n, Component(b, n, p)) # {}

ColourOf(p) == IF p = PlayerBlack THEN StoneBlack ELSE StoneWhite

\* The call that produced the current state, and the board of `pre` with the
\* mover's stone put on the target cell and nothing removed yet.
IsMove == call.op = "make_move"

Target == <<call.row, call.col>>

Mover == pre.current_player

OppColour == IF Mover = PlayerBlack THEN StoneWhite ELSE StoneBlack

Placed == [pre.board EXCEPT ![call.row][call.col] = ColourOf(Mover)]

\* Some opponent group next to the target has the target as its last liberty.
TakesLastLiberty ==
    \E q \in Cells(pre.board_size) :
        /\ Adjacent(q, Target)
        /\ At(pre.board, q) = OppColour
        /\ ~Alive(Placed, pre.board_size, q)

\* The new stone's group would have no liberty with nothing removed.
NewGroupDead == ~Alive(Placed, pre.board_size, Target)

Removed ==
    {q \in Cells(pre.board_size) : At(pre.board, q) = OppColour /\ At(board, q) = StoneEmpty}

Unchanged == GoBoard = pre

(***************************************************************************)
(* C1: in every reachable state every maximal 4-connected group of         *)
(* same-coloured stones has at least one orthogonally adjacent Empty cell. *)
(***************************************************************************)
C1_EveryGroupHasLiberty ==
    \A p \in Cells(board_size) : At(board, p) # StoneEmpty => Alive(board, board_size, p)

\* A capture has just happened and stones of both colours remain on the board.
C1_Witness ==
    /\ IsMove
    /\ call.ret
    /\ call.captured > 0
    /\ \E p, q \in Cells(board_size) : At(board, p) = StoneBlack /\ At(board, q) = StoneWhite

(***************************************************************************)
(* C2: for every accepted make_move the value returned by capture_stones,  *)
(* which is the amount added to the capture counter, equals the number of  *)
(* cells that changed from the opponent's colour to Empty in that move.    *)
(***************************************************************************)
C2_CountEqualsRemoved ==
    (IsMove /\ call.ret) =>
        /\ call.captured = Cardinality(Removed)
        /\ (captured_black + captured_white) - (pre.captured_black + pre.captured_white)
               = Cardinality(Removed)

(***************************************************************************)
(* C3: make_move mutates state iff it returns true: on false every field   *)
(* of the struct is as before the call; on true the target cell went from  *)
(* Empty to the mover's colour.                                            *)
(***************************************************************************)
C3_MutatesIffTrue ==
    IsMove =>
        IF call.ret
        THEN /\ At(pre.board, Target) = StoneEmpty
             /\ At(board, Target) = ColourOf(Mover)
             /\ ~Unchanged
        ELSE Unchanged

\* A rejected move on an Empty cell of a live game that already has a last move.
C3_Witness ==
    /\ IsMove
    /\ ~call.ret
    /\ ~pre.game_over
    /\ At(pre.board, Target) = StoneEmpty
    /\ pre.last_move # None

(***************************************************************************)
(* C4: make_move on a cell that holds a Black or White stone returns false *)
(* and leaves the board unchanged, whoever is to move.                     *)
(***************************************************************************)
C4_OccupiedRejected ==
    (IsMove /\ At(pre.board, Target) # StoneEmpty) =>
        /\ ~call.ret
        /\ board = pre.board
        /\ Unchanged

\* The mover clicked on a stone of the opponent whose group the click would
\* have left without a liberty, in a live game.
C4_Witness ==
    /\ IsMove
    /\ ~call.ret
    /\ ~pre.game_over
    /\ At(pre.board, Target) = OppColour
    /\ Cardinality(Liberties(pre.board, pre.board_size,
                             Component(pre.board, pre.board_size, Target))) = 1

(***************************************************************************)
(* C5: while game_over is true, make_move returns false for every cell and *)
(* places no stone.                                                        *)
(***************************************************************************)
C5_GameOverRejects ==
    (IsMove /\ pre.game_over) =>
        /\ ~call.ret
        /\ board = pre.board
        /\ game_over

\* A rejected move on an Empty cell that would have captured had the game
\* been live.
C5_Witness ==
    /\ IsMove
    /\ pre.game_over
    /\ ~call.ret
    /\ At(pre.board, Target) = StoneEmpty
    /\ TakesLastLiberty

(***************************************************************************)
(* C6: in a live game, on an Empty target, a move that leaves no           *)
(* neighbouring opponent group without liberties is rejected iff the group *)
(* of the new stone would have no Empty neighbour.                         *)
(***************************************************************************)
C6_SuicideIffRejected ==
    (IsMove /\ ~pre.game_over /\ At(pre.board, Target) = StoneEmpty /\ ~TakesLastLiberty) =>
        (~call.ret <=> NewGroupDead)

\* A suicide rejected although the target touches a friendly stone.
C6_Witness ==
    /\ IsMove
    /\ ~pre.game_over
    /\ At(pre.board, Target) = StoneEmpty
    /\ ~TakesLastLiberty
    /\ ~call.ret
    /\ \E q \in Cells(pre.board_size) :
           Adjacent(q, Target) /\ At(pre.board, q) = ColourOf(Mover)

(***************************************************************************)
(* C7: in a live game, on an Empty target, a move that takes the last      *)
(* liberty of an adjacent opponent group is accepted, the placed stone     *)
(* stays on the board and its group has a liberty after the move.          *)
(***************************************************************************)
C7_CaptureAlwaysLegal ==
    (IsMove /\ ~pre.game_over /\ At(pre.board, Target) = StoneEmpty /\ TakesLastLiberty) =>
        /\ call.ret
        /\ At(board, Target) = ColourOf(Mover)
        /\ Alive(board, board_size, Target)

\* An accepted capture by a stone whose group had no liberty before the removal.
C7_Witness ==
    /\ IsMove
    /\ call.ret
    /\ TakesLastLiberty
    /\ NewGroupDead

(***************************************************************************)
(* C8: pass_turn gives the turn to the other player and changes nothing    *)
(* else, also when game_over is true.                                      *)
(***************************************************************************)
C8_PassOnlyFlips ==
    call.op = "pass_turn" =>
        /\ current_player \in Player
        /\ current_player # pre.current_player
        /\ board = pre.board
        /\ board_size = pre.board_size
        /\ captured_black = pre.captured_black
        /\ captured_white = pre.captured_white
        /\ last_move = pre.last_move
        /\ game_over = pre.game_over

\* A pass in a finished game with stones on the board.
C8_Witness ==
    /\ call.op = "pass_turn"
    /\ pre.game_over
    /\ pre.last_move # None

(***************************************************************************)
(* C9: the turn alternates strictly: an accepted move places the colour of *)
(* the player who was to move and hands the turn over, a pass hands it     *)
(* over, a rejected move keeps it; after k accepted moves and passes since *)
(* construction or reset Black is to move iff k is even.                   *)
(***************************************************************************)
C9_TurnAlternates ==
    /\ current_player = PlayerBlack <=> steps % 2 = 0
    /\ current_player = PlayerWhite <=> steps % 2 = 1
    /\ (IsMove /\ call.ret) =>
           /\ At(board, Target) = ColourOf(pre.current_player)
           /\ current_player # pre.current_player
    /\ (IsMove /\ ~call.ret) => current_player = pre.current_player
    /\ call.op = "pass_turn" => current_player # pre.current_player

\* White has just captured, after a pass earlier in the game.
C9_Witness ==
    /\ IsMove
    /\ call.ret
    /\ call.captured > 0
    /\ Mover = PlayerWhite
    /\ steps % 2 = 0
    /\ Cardinality({p \in Cells(board_size) : At(board, p) # StoneEmpty}) + Cardinality(Removed)
           < steps

(***************************************************************************)
(* C10: reset yields the default starting state whatever the size the      *)
(* board was constructed with: the default size, an all-Empty grid of that *)
(* size, Black to move, no captures, no last move, game not over.          *)
(***************************************************************************)
C10_ResetIsDefault ==
    call.op = "reset" =>
        /\ board_size = DEFAULT_BOARD_SIZE
        /\ DOMAIN board = 0..(DEFAULT_BOARD_SIZE - 1)
        /\ \A r \in DOMAIN board :
               /\ DOMAIN board[r] = 0..(DEFAULT_BOARD_SIZE - 1)
               /\ \A c \in DOMAIN board[r] : board[r][c] = StoneEmpty
        /\ current_player = PlayerBlack
        /\ captured_black = 0
        /\ captured_white = 0
        /\ last_move = None
        /\ ~game_over

\* A reset of a smaller board, in a finished game with captures, White to move.
C10_Witness ==
    /\ call.op = "reset"
    /\ pre.board_size < DEFAULT_BOARD_SIZE
    /\ pre.game_over
    /\ pre.captured_black + pre.captured_white > 0
    /\ pre.current_player = PlayerWhite
    /\ board_size = DEFAULT_BOARD_SIZE

(***************************************************************************)
(* C11: last_move is absent iff no move has been accepted since            *)
(* construction or the last reset; when present it is the cell of the most *)
(* recently accepted move, lies on the board and holds the colour of the   *)
(* player who made that move, also after passes and rejected moves.        *)
(***************************************************************************)
C11_LastMoveIsLastAccepted ==
    /\ last_move = None <=> accepted = <<>>
    /\ accepted # <<>> =>
           /\ last_move = <<accepted[1].row, accepted[1].col>>
           /\ last_move \in Cells(board_size)
           /\ At(board, last_move) = ColourOf(accepted[1].player)

\* A rejected move after a pass that followed the last accepted move.
C11_Witness ==
    /\ IsMove
    /\ ~call.ret
    /\ accepted # <<>>
    /\ accepted[1].step < steps
    /\ last_move # None

(***************************************************************************)
(* C12: an accepted move by Black changes at most captured_white, one by   *)
(* White at most captured_black; a counter changes only in a move that     *)
(* removes a stone of its colour; no call but reset lowers a counter.      *)
(***************************************************************************)
C12_CountersByCapturedColour ==
    /\ (IsMove /\ call.ret /\ Mover = PlayerBlack) =>
           /\ captured_black = pre.captured_black
           /\ captured_white # pre.captured_white =>
                  \E q \in Removed : At(pre.board, q) = StoneWhite
    /\ (IsMove /\ call.ret /\ Mover = PlayerWhite) =>
           /\ captured_white = pre.captured_white
           /\ captured_black # pre.captured_black =>
                  \E q \in Removed : At(pre.board, q) = StoneBlack
    /\ ~(IsMove /\ call.ret) /\ call.op # "reset" =>
           /\ captured_black = pre.captured_black
           /\ captured_white = pre.captured_white
    /\ call.op # "reset" =>
           /\ captured_black >= pre.captured_black
           /\ captured_white >= pre.captured_white

\* White has captured when Black had captured before.
C12_Witness ==
    /\ IsMove
    /\ call.ret
    /\ Mover = PlayerWhite
    /\ captured_black > pre.captured_black
    /\ captured_white > 0

(***************************************************************************)
(* C13: an accepted move changes the grid in exactly these cells: the      *)
(* target goes from Empty to the mover's colour, and every opponent stone  *)
(* whose group has no liberty on the board with the new stone placed       *)
(* becomes Empty.  Nothing else changes.                                   *)
(***************************************************************************)
C13_GridChangesExactly ==
    (IsMove /\ call.ret) =>
        /\ At(pre.board, Target) = StoneEmpty
        /\ \A q \in Cells(board_size) :
               At(board, q) = IF q = Target
                              THEN ColourOf(Mover)
                              ELSE IF At(Placed, q) = OppColour /\ ~Alive(Placed, pre.board_size, q)
                                   THEN StoneEmpty
                                   ELSE At(pre.board, q)

\* One placement removed two groups that were not connected, and stones of
\* both colours stay.
C13_Witness ==
    /\ IsMove
    /\ call.ret
    /\ \E a, c \in Removed : c \notin Component(pre.board, pre.board_size, a)
    /\ \E q \in Cells(board_size) : q # Target /\ At(board, q) = ColourOf(Mover)

(***************************************************************************)
(* C14: make_move and pass_turn never change game_over, whatever the       *)
(* position and however many passes follow each other; reset sets it to    *)
(* false.                                                                  *)
(***************************************************************************)
C14_CoreNeverEndsGame ==
    /\ call.op \in {"make_move", "pass_turn"} => game_over = pre.game_over
    /\ call.op = "reset" => ~game_over

\* At least two passes and no accepted move since construction or reset, on
\* the default board, and the game is not over.
C14_Witness ==
    /\ call.op = "pass_turn"
    /\ accepted = <<>>
    /\ steps >= 2
    /\ board_size = DEFAULT_BOARD_SIZE
    /\ ~pre.game_over
    /\ ~game_over

(***************************************************************************)
(* C15: move legality depends only on the grid, current_player and         *)
(* game_over: on a board that differs from the one the call started on     *)
(* only in last_move, captured_black or captured_white, is_valid_move      *)
(* gives the result the call got and an accepted move gives the same grid  *)
(* and next player; a call that only tested legality left the struct as it *)
(* was.                                                                    *)
(***************************************************************************)
Lookalikes(g) ==
    { [g EXCEPT !.last_move = None],
      [g EXCEPT !.last_move = Some(0, 0), !.captured_black = g.captured_black + 1],
      [g EXCEPT !.captured_white = g.captured_white + 1] }

C15_LegalityReadsGridTurnFlag ==
    IsMove =>
        /\ is_valid_move_on(pre, call.row, call.col) = call.ret
        /\ \A g \in Lookalikes(pre) :
               /\ is_valid_move_on(g, call.row, call.col) = call.ret
               /\ call.ret =>
                      /\ board = place_and_capture(g, call.row, call.col).board
                      /\ current_player = place_and_capture(g, call.row, call.col).current_player
        /\ ~call.ret => Unchanged

\* A capture played next to the previous move, on a board that had a capture
\* count before.
C15_Witness ==
    /\ IsMove
    /\ call.ret
    /\ call.captured > 0
    /\ pre.last_move # None
    /\ Adjacent(pre.last_move, Target)
    /\ pre.captured_black + pre.captured_white > 0

(***************************************************************************)
(* C16: ko is not enforced.  When a move has captured exactly one stone    *)
(* and the capturing stone stands alone with the emptied cell as its only  *)
(* liberty, the other player's move into that cell at the next step is     *)
(* accepted and brings back the grid that stood before the capture.        *)
(***************************************************************************)
\* The call is a move into the one cell that the accepted move of the step
\* before, by the other player, had emptied.
RetakeAttempt ==
    /\ IsMove
    /\ ~pre.game_over
    /\ pre.last_move # None
    /\ accepted # <<>>
    /\ IF call.ret
       THEN accepted[1].retakes
       ELSE /\ accepted[1].step = steps
            /\ accepted[1].player # Mover
            /\ accepted[1].removed = {Target}

\* The stone that captured stands alone and the cell it emptied is its only liberty.
KoShape ==
    /\ Component(pre.board, pre.board_size, pre.last_move) = {pre.last_move}
    /\ Liberties(pre.board, pre.board_size, {pre.last_move}) = {Target}

\* The grid before the capture: the capturing stone not yet there, the
\* captured stone, of the colour of the player now moving, still there.
GridBeforeCapture ==
    [pre.board EXCEPT ![pre.last_move[1]][pre.last_move[2]] = StoneEmpty,
                      ![call.row][call.col] = ColourOf(Mover)]

C16_KoRetakeAccepted ==
    (RetakeAttempt /\ KoShape) =>
        /\ call.ret
        /\ board = GridBeforeCapture

\* The retake has been played and the grid of two moves earlier is back.
C16_Witness ==
    /\ RetakeAttempt
    /\ KoShape
    /\ call.ret
    /\ Removed = {pre.last_move}
    /\ board = GridBeforeCapture

(***************************************************************************)
(* C17: on every board, for every occupied cell, get_group with the cell's *)
(* colour returns exactly the maximal 4-connected same-coloured set around *)
(* the cell: the cell is in it, every member has the colour, no            *)
(* same-coloured cell orthogonally adjacent to a member is left out, and   *)
(* nothing else (a diagonal neighbour, a separate island) is in it.        *)
(***************************************************************************)
GroupReturned == call.op = "get_group_returned"

Asked == <<call.row, call.col>>

C17_GroupIsComponent ==
    GroupReturned =>
        /\ Asked \in call.ret
        /\ \A m \in call.ret : At(board, m) = call.stone
        /\ \A m \in call.ret : \A q \in Cells(board_size) :
               (Adjacent(m, q) /\ At(board, q) = call.stone) => q \in call.ret
        /\ call.ret = Component(board, board_size, Asked)
        /\ get_group(board, board_size, call.row, call.col, call.stone) = call.ret

\* An L-shaped group of three is returned while a same-coloured stone that
\* touches it only diagonally, or not at all, stays outside.
C17_Witness ==
    /\ GroupReturned
    /\ Cardinality(call.ret) >= 3
    /\ \E m \in call.ret : \E q \in Cells(board_size) \ call.ret :
           /\ At(board, q) = call.stone
           /\ m[1] # q[1] /\ m[2] # q[2]
           /\ (m[1] - q[1]) \in {-1, 1} /\ (m[2] - q[2]) \in {-1, 1}
    /\ \E m1, m2 \in call.ret : m1[1] # m2[1] /\ m1[2] # m2[2]

(***************************************************************************)
(* C18: the flood fill ends.  While get_group runs, every pop is of a cell *)
(* pushed before, a cell enters the group at most once, an insert pushes   *)
(* at most four neighbours, and so the number of loop iterations stays     *)
(* within 1 + 4 * board_size^2; when the call returns the stack is empty   *)
(* and everything pushed has been popped.                                  *)
(***************************************************************************)
InGroupCall == call.op \in {"get_group", "get_group_returned"}

GroupSoFar == IF GroupReturned THEN call.ret ELSE call.group

StackLeft == IF GroupReturned THEN 0 ELSE Len(call.stack)

C18_FloodFillBounded ==
    InGroupCall =>
        /\ call.inserts = Cardinality(GroupSoFar)
        /\ GroupSoFar \subseteq Cells(board_size)
        /\ call.pushes <= 1 + 4 * call.inserts
        /\ call.pops + StackLeft = call.pushes
        /\ call.pops <= 1 + 4 * board_size * board_size

\* Under weak fairness of the loop (sequential code keeps running) the call returns.
SpecGroupFair == SpecGroup /\ WF_vars(get_group_iterate) /\ WF_vars(get_group_return)

FloodFillReturns == (call.op = "get_group") ~> GroupReturned

\* A call on a group of four or more has returned after popping some cell
\* that had been pushed twice.
C18_Witness ==
    /\ GroupReturned
    /\ Cardinality(call.ret) >= 4
    /\ call.pops > call.inserts
    /\ call.pops = call.pushes

(***************************************************************************)
(* C19: every stone removed by an accepted make_move(row, col) belongs to  *)
(* an opponent group that has a member orthogonally adjacent to            *)
(* (row, col); no group elsewhere on the board is removed.                 *)
(***************************************************************************)
Emptied ==
    {q \in Cells(pre.board_size) : At(pre.board, q) # StoneEmpty /\ At(board, q) = StoneEmpty}

C19_RemovedTouchTarget ==
    (IsMove /\ call.ret) =>
        \A q \in Emptied :
            /\ At(pre.board, q) = OppColour
            /\ \E m \in Component(pre.board, pre.board_size, q) : Adjacent(m, Target)

\* A group of two or more is removed, one of its stones away from the target.
C19_Witness ==
    /\ IsMove
    /\ call.ret
    /\ \E q \in Emptied : ~Adjacent(q, Target)

(***************************************************************************)
(* C20: for an accepted make_move(row, col), would_capture_opponent        *)
(* evaluated before the move is true exactly when the move removes at      *)
(* least one opponent stone (capture_stones returns more than 0), and the  *)
(* placed stone's group has a liberty afterwards.                          *)
(***************************************************************************)
PredictedCapture ==
    would_capture_opponent(pre.board, pre.board_size, call.row, call.col, Mover)

C20_PredictionMatchesCapture ==
    (IsMove /\ call.ret) =>
        /\ PredictedCapture <=> call.captured > 0
        /\ PredictedCapture <=> Emptied # {}
        /\ At(board, Target) = ColourOf(Mover)
        /\ Alive(board, board_size, Target)

\* A move that would have been suicide is accepted for its capture, and the
\* placed stone has a liberty afterwards.
C20_Witness ==
    /\ IsMove
    /\ call.ret
    /\ NewGroupDead
    /\ PredictedCapture
    /\ call.captured > 0
    /\ Alive(board, board_size, Target)

====
